---------------------------- MODULE Spec2Model ----------------------------
(***************************************************************************)
(* Model of streamlit_app.py (hmartiniano/tides): the tide / temperature   *)
(* merger.  One run of the script is modelled: the two uploaded workbooks  *)
(* are the inputs, process_and_merge_data is split at its loop iterations  *)
(* and the download section is the last step.                              *)
(*                                                                         *)
(* Cells are coded by integers.  A date cell d >= 0 is day number d, a     *)
(* time cell t in 0..86399 is a time of day in seconds; any other code is  *)
(* a cell whose text pandas cannot parse.  NULL codes NaN / NaT.  A code   *)
(* stands for the text of the cell, so astype(str) leaves it as it is and  *)
(* to_datetime is what gives it a value.                                   *)
(* pandas library calls (drop_duplicates, to_datetime, sort_values,        *)
(* merge_asof) are modelled by what the library does.                      *)
(***************************************************************************)
EXTENDS Integers, Sequences, FiniteSets, Bags, TLC

VARIABLES tide_file, temp_file, pc, df_mares, sheet_idx, processed_temp_dfs,
          merged_results, merged_data, download, log

vars == <<tide_file, temp_file, pc, df_mares, sheet_idx, processed_temp_dfs,
          merged_results, merged_data, download, log>>

(* ---------------------------- bounds ---------------------------------- *)
MaxEvents == 2
MaxReadings == 2
MaxSheets == 2
MaxDedupRows == 5

(* ------------------------- program constants -------------------------- *)
Tolerance == 3600
SecondsPerDay == 86400
NULL == -1

(* ------------------------------ helpers -------------------------------- *)
Range(s) == {s[k] : k \in DOMAIN s}

SeqsUpTo(S, n) == UNION {[1..m -> S] : m \in 0..n}

RECURSIVE SelectIdx(_, _, _)
\* the subsequence of s at the indices in keep, in the order of s
SelectIdx(s, keep, k) ==
    IF k > Len(s) THEN <<>>
    ELSE (IF k \in keep THEN <<s[k]>> ELSE <<>>) \o SelectIdx(s, keep, k + 1)

Restrict(r, cols) == [c \in cols |-> r[c]]

(* ----------------------- Timestamp composition ------------------------- *)
\* pd.to_datetime(date.astype(str) + ' ' + time.astype(str), errors='coerce')
ToDateTime(d, t) ==
    IF d >= 0 /\ t >= 0 /\ t < SecondsPerDay THEN d * SecondsPerDay + t ELSE NULL

(* ----------------------------- sort_values ----------------------------- *)
\* sort_values(by=key): ascending by key; the default sort kind is not
\* stable, so every order of rows with equal keys is a possible outcome.
MinKeyIdx(rows, S, key) == {k \in S : \A m \in S : rows[k][key] <= rows[m][key]}

RECURSIVE SortedOrders(_, _, _)
SortedOrders(rows, S, key) ==
    IF S = {} THEN {<<>>}
    ELSE UNION {{<<rows[k]>> \o rest : rest \in SortedOrders(rows, S \ {k}, key)} :
                k \in MinKeyIdx(rows, S, key)}

sort_values(rows, key) == SortedOrders(rows, DOMAIN rows, key)

\* dropna(subset=[key])
dropna(rows, key) == SelectIdx(rows, {k \in DOMAIN rows : rows[k][key] # NULL}, 1)

(* -------------------------- Tide data (49-65) -------------------------- *)
EventType == "Preia-Mar"

\* faulty variant: the filter keeps the other rows
FilterMare_Not(rows) == SelectIdx(rows, {k \in DOMAIN rows : rows[k]["Mare"] # EventType}, 1)

\* df_mares[df_mares['Mare'] == 'Preia-Mar']
FilterMare(rows) == SelectIdx(rows, {k \in DOMAIN rows : rows[k]["Mare"] = EventType}, 1)

NewName(c) == IF c = "Alt" THEN "Mares_Alt" ELSE IF c = "Mare" THEN "Mares_Mare" ELSE c
OldName(c) == IF c = "Mares_Alt" THEN "Alt" ELSE IF c = "Mares_Mare" THEN "Mare" ELSE c

\* df_mares.rename(columns={'Alt': 'Mares_Alt', 'Mare': 'Mares_Mare'})
RenameRow(r) == [c \in {NewName(k) : k \in DOMAIN r} |-> r[OldName(c)]]

AddMaresDateTime(r) == r @@ [Mares_DateTime |-> ToDateTime(r["Data"], r["Hora"])]

\* lines 54-59: filter, compose, drop the rows whose timestamp is NaT
TideValidRows(rows) ==
    dropna([k \in DOMAIN FilterMare(rows) |-> AddMaresDateTime(FilterMare(rows)[k])],
           "Mares_DateTime")

\* lines 60-61: the possible results of the sort, renamed
TidePrepared(rows) ==
    {[k \in DOMAIN s |-> RenameRow(s[k])] : s \in sort_values(TideValidRows(rows), "Mares_DateTime")}

TideRequired == {"Mare", "Data", "Hora"}

\* the tide file raises inside the try block of lines 49-61
TideRaises(f) == ~f.readable \/ ~(TideRequired \subseteq f.cols)

(* ------------------- Temperature sheets (73-98) ------------------------ *)
Origem == "ficheiro.origem"

\* lines 77-78
DropOrigem(rows) == [k \in DOMAIN rows |-> Restrict(rows[k], DOMAIN rows[k] \ {Origem})]

\* faulty variant: keep=False, every copy of a repeated row is removed
drop_duplicates_KeepNone(rows) ==
    SelectIdx(rows, {k \in DOMAIN rows : \A m \in DOMAIN rows : m # k => rows[m] # rows[k]}, 1)

\* drop_duplicates(): the first occurrence of every distinct row is kept
drop_duplicates(rows) ==
    SelectIdx(rows, {k \in DOMAIN rows : \A m \in 1..(k - 1) : rows[m] # rows[k]}, 1)

\* faulty variant: an empty sheet is not skipped
SkipSheet_NoEmpty(cols, rows) == "Date" \notin cols \/ "time" \notin cols

\* line 88
SkipSheet(cols, rows) == rows = <<>> \/ "Date" \notin cols \/ "time" \notin cols

AddTempDateTime(r) == r @@ [Temp_DateTime |-> ToDateTime(r["Date"], r["time"])]

\* lines 93-95
TempValidRows(rows) ==
    dropna([k \in DOMAIN rows |-> AddTempDateTime(rows[k])], "Temp_DateTime")

(* --------------------------- log messages ------------------------------ *)
Msg(kind, text, sheet, n) == [kind |-> kind, text |-> text, sheet |-> sheet, n |-> n]


(* ------------------------ merge_asof (114-121) ------------------------- *)
\* direction='backward' candidate: the last right row at or before t, kept
\* only when it is not further away than the tolerance (0: no candidate)
BackwardIdx(t, right) ==
    LET S == {p \in DOMAIN right : right[p]["Temp_DateTime"] <= t}
        p == CHOOSE q \in S : \A m \in S : m <= q
    IN  IF S = {} THEN 0
        ELSE IF t - right[p]["Temp_DateTime"] > Tolerance THEN 0 ELSE p

\* faulty variant: a reading exactly one tolerance away is rejected
ForwardIdx_Exclusive(t, right) ==
    LET S == {p \in DOMAIN right : right[p]["Temp_DateTime"] >= t}
        p == CHOOSE q \in S : \A m \in S : q <= m
    IN  IF S = {} THEN 0
        ELSE IF right[p]["Temp_DateTime"] - t >= Tolerance THEN 0 ELSE p

\* direction='forward' candidate: the first right row at or after t
ForwardIdx(t, right) ==
    LET S == {p \in DOMAIN right : right[p]["Temp_DateTime"] >= t}
        p == CHOOSE q \in S : \A m \in S : q <= m
    IN  IF S = {} THEN 0
        ELSE IF right[p]["Temp_DateTime"] - t > Tolerance THEN 0 ELSE p

\* faulty variant: direction='backward'
NearestIdx_Backward(t, right) == BackwardIdx(t, right)

\* faulty variant: the later candidate wins a tie
NearestIdx_Later(t, right) ==
    LET b == BackwardIdx(t, right)
        f == ForwardIdx(t, right)
    IN  IF b # 0 /\ f # 0
        THEN (IF t - right[b]["Temp_DateTime"] < right[f]["Temp_DateTime"] - t THEN b ELSE f)
        ELSE (IF b # 0 THEN b ELSE f)

\* direction='nearest': the closer of the two candidates, the backward one
\* when they are equally close
NearestIdx(t, right) ==
    LET b == BackwardIdx(t, right)
        f == ForwardIdx(t, right)
    IN  IF b # 0 /\ f # 0
        THEN (IF t - right[b]["Temp_DateTime"] <= right[f]["Temp_DateTime"] - t THEN b ELSE f)
        ELSE (IF b # 0 THEN b ELSE f)

NullRow(cols) == [c \in cols |-> NULL]

\* faulty variant: an inner join, the unmatched event rows are lost
merge_asof_Inner(left, right, rightCols) ==
    LET matched == {k \in DOMAIN left : NearestIdx(left[k]["Mares_DateTime"], right) # 0}
        kept == SelectIdx(left, matched, 1)
    IN  [k \in DOMAIN kept |->
            kept[k] @@ right[NearestIdx(kept[k]["Mares_DateTime"], right)]]

\* pd.merge_asof(left, right, left_on='Mares_DateTime', right_on='Temp_DateTime',
\*               direction='nearest', tolerance=1 hour): one row per left row
merge_asof(left, right, rightCols) ==
    [k \in DOMAIN left |->
        LET p == NearestIdx(left[k]["Mares_DateTime"], right)
        IN  left[k] @@ (IF p = 0 THEN NullRow(rightCols) ELSE right[p])]

\* lines 114-122: the merged table of one sheet, tagged with the sheet name
MergeSheetRows(left, entry) ==
    LET m == merge_asof(left, entry.rows, entry.cols)
    IN  [k \in DOMAIN m |-> m[k] @@ [Source_Temp_Sheet |-> entry.name]]

(* ------------------------- ordered dict ------------------------------- *)
\* faulty variant: the dict is rebuilt with the one entry
DictSet_Overwrite(d, entry) == <<entry>>

\* d[key] = entry for a dict kept as the sequence of its entries in
\* insertion order
DictSet(d, entry) ==
    IF \E k \in DOMAIN d : d[k].name = entry.name
    THEN [k \in DOMAIN d |-> IF d[k].name = entry.name THEN entry ELSE d[k]]
    ELSE Append(d, entry)

Keys(d) == [k \in DOMAIN d |-> d[k].name]

(* ------------------------------ inputs --------------------------------- *)
EventRow(mare, data, hora, alt) == [Mare |-> mare, Data |-> data, Hora |-> hora, Alt |-> alt]
Reading(date, time, val) == [Date |-> date, time |-> time, val |-> val]
ReadingO(date, time, val, o) == Reading(date, time, val) @@ [c \in {Origem} |-> o]

TideFile(present, readable, cols, rows) ==
    [present |-> present, readable |-> readable, cols |-> cols, rows |-> rows]
Sheet(name, readable, cols, rows) ==
    [name |-> name, readable |-> readable, cols |-> cols, rows |-> rows]
TempFile(present, readable, sheets) ==
    [present |-> present, readable |-> readable, sheets |-> sheets]

TideCols == {"Data", "Hora", "Mare", "Alt"}
TempCols == {"Date", "time", "val"}

AllNames == <<"A", "B", "C", "D">>
SheetNames == {AllNames[k] : k \in 1..MaxSheets}

\* a high tide at 00:30:00 of day 1
HighTide == EventRow("Preia-Mar", 1, 1800, 1)
LowTide == EventRow("Baixa-Mar", 1, 1800, 1)
SimpleTide == TideFile(TRUE, TRUE, TideCols, <<HighTide>>)

\* Family 1: one sheet, events and readings around the 1 hour tolerance
\* (across midnight), with unparseable dates and times
MergeEventRows ==
    {HighTide, LowTide, EventRow("Preia-Mar", 1, 5400, 1), EventRow("Preia-Mar", 1, 90000, 1)}
MergeReadings ==
    {Reading(0, 84599, 20), Reading(0, 84600, 20), Reading(0, 84601, 20),
     Reading(1, 5399, 20), Reading(1, 5400, 20), Reading(1, 5401, 20),
     Reading(NULL, 1800, 20)}

InitMergeInputs ==
    /\ tide_file \in {TideFile(TRUE, TRUE, TideCols, rows) :
                        rows \in SeqsUpTo(MergeEventRows, MaxEvents)}
    /\ temp_file \in {TempFile(TRUE, TRUE, <<Sheet("A", TRUE, TempCols, rows)>>) :
                        rows \in SeqsUpTo(MergeReadings, MaxReadings)}

\* Family 2: workbooks of several sheets of every kind, tide files of
\* every kind
TideVariants ==
    {TideFile(FALSE, FALSE, {}, <<>>), TideFile(TRUE, FALSE, {}, <<>>)}
    \cup {TideFile(TRUE, TRUE, TideCols \ {c}, <<Restrict(HighTide, TideCols \ {c})>>) :
            c \in TideCols}
    \cup {TideFile(TRUE, TRUE, TideCols, rows) :
            rows \in {<<>>, <<LowTide>>, <<HighTide>>, <<HighTide, LowTide>>}}

SheetKinds ==
    {[readable |-> TRUE, cols |-> TempCols, rows |-> <<Reading(1, 1800, 20)>>],
     [readable |-> TRUE, cols |-> TempCols \cup {Origem},
      rows |-> <<ReadingO(1, 5400, 20, 1), ReadingO(1, 5400, 20, 2)>>],
     [readable |-> TRUE, cols |-> TempCols, rows |-> <<>>],
     [readable |-> TRUE, cols |-> {"Date", "val"}, rows |-> <<[Date |-> 1, val |-> 20]>>],
     [readable |-> TRUE, cols |-> {"time", "val"}, rows |-> <<[time |-> 1800, val |-> 20]>>],
     [readable |-> TRUE, cols |-> TempCols, rows |-> <<Reading(NULL, 1800, 20)>>],
     [readable |-> FALSE, cols |-> {}, rows |-> <<>>]}

\* sheet names are unique within a workbook
SheetSeqs ==
    {s \in UNION {[1..m -> SheetNames \X SheetKinds] : m \in 1..MaxSheets} :
        \A a, b \in DOMAIN s : a # b => s[a][1] # s[b][1]}

Workbooks ==
    {TempFile(FALSE, FALSE, <<>>), TempFile(TRUE, FALSE, <<>>)}
    \cup {TempFile(TRUE, TRUE,
                   [k \in DOMAIN s |-> Sheet(s[k][1], s[k][2].readable, s[k][2].cols, s[k][2].rows)]) :
            s \in SheetSeqs}

InitSheetInputs ==
    /\ tide_file \in TideVariants
    /\ temp_file \in Workbooks

\* Family 3: one sheet of up to MaxDedupRows rows with repeated rows, rows
\* that differ only in 'ficheiro.origem', and rows with equal timestamps
DedupRows ==
    {ReadingO(1, 1800, 20, 1), ReadingO(1, 1800, 20, 2), ReadingO(1, 1800, 21, 1),
     ReadingO(1, 5400, 20, 1), ReadingO(1, 5400, 21, 1)}

InitDedupInputs ==
    /\ tide_file = SimpleTide
    /\ temp_file \in {TempFile(TRUE, TRUE, <<Sheet("A", TRUE, TempCols \cup {Origem}, rows)>>) :
                        rows \in SeqsUpTo(DedupRows, MaxDedupRows)}

Init ==
    /\ (InitMergeInputs \/ InitSheetInputs \/ InitDedupInputs)
    /\ pc = "start"
    /\ df_mares = <<>>
    /\ sheet_idx = 0
    /\ processed_temp_dfs = <<>>
    /\ merged_results = <<>>
    /\ merged_data = <<>>
    /\ download = <<>>
    /\ log = <<>>

(* ------------------------------ actions -------------------------------- *)
Stop == pc' = "stopped"

\* lines 132-139 and 158-159: the script body once the uploaders have run
Start ==
    /\ pc = "start"
    /\ IF tide_file.present /\ temp_file.present
       THEN /\ log' = Append(log, Msg("success", "uploaded", "", 0))
            /\ pc' = "tide"
       ELSE /\ log' = Append(log, Msg("info", "please upload", "", 0))
            /\ pc' = "idle"
    /\ UNCHANGED <<tide_file, temp_file, df_mares, sheet_idx, processed_temp_dfs,
                   merged_results, merged_data, download>>

\* faulty variant: the handler reports the error and does not stop
TideStop_Missing == pc' = "open_temp"

\* line 65: st.stop() of the tide handler
TideStop == pc' = "stopped"

\* faulty variant: break instead of continue
SkipNext_Break(idx) == Len(temp_file.sheets) + 1

\* line 90: continue with the next sheet
SkipNext(idx) == idx + 1

\* lines 49-65
PrepareTide ==
    /\ pc = "tide"
    /\ IF TideRaises(tide_file)
       THEN /\ log' = log \o (IF tide_file.readable
                              THEN <<Msg("write", "tide loaded", "", 0)>> ELSE <<>>)
                          \o <<Msg("error", "tide", "", 0)>>
            /\ TideStop
            /\ UNCHANGED df_mares
       ELSE /\ df_mares' \in TidePrepared(tide_file.rows)
            /\ log' = Append(log, Msg("write", "tide loaded", "", 0))
            /\ pc' = "open_temp"
    /\ UNCHANGED <<tide_file, temp_file, sheet_idx, processed_temp_dfs,
                   merged_results, merged_data, download>>

\* lines 68-71 (and 100-102 when the workbook cannot be opened)
OpenTemp ==
    /\ pc = "open_temp"
    /\ IF ~temp_file.readable
       THEN /\ log' = Append(log, Msg("error", "temperature", "", 0))
            /\ Stop
            /\ UNCHANGED <<sheet_idx, processed_temp_dfs>>
       ELSE /\ processed_temp_dfs' = <<>>
            /\ sheet_idx' = 1
            /\ pc' = "temp_loop"
            /\ UNCHANGED log
    /\ UNCHANGED <<tide_file, temp_file, df_mares, merged_results, merged_data, download>>

\* lines 73-98: one iteration of the sheet loop (and 100-102 when it raises)
NormalizeSheet ==
    /\ pc = "temp_loop"
    /\ sheet_idx <= Len(temp_file.sheets)
    /\ LET sh == temp_file.sheets[sheet_idx]
           cols == sh.cols \ {Origem}
           initial == DropOrigem(sh.rows)
           rows == drop_duplicates(initial)
           duplicates_removed == Len(initial) - Len(rows)
           warn == IF duplicates_removed > 0
                   THEN <<Msg("warning", "duplicates", sh.name, duplicates_removed)>>
                   ELSE <<>>
       IN  IF ~sh.readable
           THEN /\ log' = Append(log, Msg("error", "temperature", "", 0))
                /\ Stop
                /\ UNCHANGED <<sheet_idx, processed_temp_dfs>>
           ELSE IF SkipSheet(cols, rows)
           THEN /\ log' = log \o warn \o <<Msg("info", "skip", sh.name, 0)>>
                /\ sheet_idx' = SkipNext(sheet_idx)
                /\ UNCHANGED <<pc, processed_temp_dfs>>
           ELSE /\ \E s \in sort_values(TempValidRows(rows), "Temp_DateTime") :
                     processed_temp_dfs' =
                        DictSet(processed_temp_dfs,
                                [name |-> sh.name, cols |-> cols \cup {"Temp_DateTime"}, rows |-> s])
                /\ log' = log \o warn
                /\ sheet_idx' = sheet_idx + 1
                /\ UNCHANGED pc
    /\ UNCHANGED <<tide_file, temp_file, df_mares, merged_results, merged_data, download>>

\* lines 104-110: after the last sheet
CheckProcessed ==
    /\ pc = "temp_loop"
    /\ sheet_idx > Len(temp_file.sheets)
    /\ IF processed_temp_dfs = <<>>
       THEN /\ log' = Append(log, Msg("warning", "no valid sheets", "", 0))
            /\ Stop
            /\ UNCHANGED merged_results
       ELSE /\ merged_results' = <<>>
            /\ log' = Append(log, Msg("subheader", "merging", "", 0))
            /\ pc' = "merge_loop"
    /\ UNCHANGED <<tide_file, temp_file, df_mares, sheet_idx, processed_temp_dfs,
                   merged_data, download>>

\* lines 112-124: one iteration of the merge loop
MergeSheet ==
    /\ pc = "merge_loop"
    /\ Len(merged_results) < Len(processed_temp_dfs)
    /\ LET entry == processed_temp_dfs[Len(merged_results) + 1]
           merged_sheet_df == MergeSheetRows(df_mares, entry)
       IN  /\ merged_results' = DictSet(merged_results,
                                        [name |-> entry.name, cols |-> entry.cols,
                                         rows |-> merged_sheet_df])
           /\ log' = log \o <<Msg("write", "merging with", entry.name, 0),
                              Msg("write", "merged rows", entry.name, Len(merged_sheet_df))>>
    /\ UNCHANGED <<tide_file, temp_file, pc, df_mares, sheet_idx, processed_temp_dfs,
                   merged_data, download>>

\* lines 126-130 and 139: the end of process_and_merge_data
Return ==
    /\ pc = "merge_loop"
    /\ Len(merged_results) = Len(processed_temp_dfs)
    /\ IF merged_results = <<>>
       THEN /\ log' = Append(log, Msg("warning", "no data merged", "", 0))
            /\ Stop
            /\ UNCHANGED merged_data
       ELSE /\ merged_data' = merged_results
            /\ pc' = "download"
            /\ UNCHANGED log
    /\ UNCHANGED <<tide_file, temp_file, df_mares, sheet_idx, processed_temp_dfs,
                   merged_results, download>>

\* lines 141-157: the workbook offered for download, one sheet per entry
Export ==
    /\ pc = "download"
    /\ download' = [k \in DOMAIN merged_data |->
                      [name |-> merged_data[k].name, rows |-> merged_data[k].rows]]
    /\ log' = Append(log, Msg("subheader", "download", "", 0))
    /\ pc' = "done"
    /\ UNCHANGED <<tide_file, temp_file, df_mares, sheet_idx, processed_temp_dfs,
                   merged_results, merged_data>>

Next ==
    \/ Start
    \/ PrepareTide
    \/ OpenTemp
    \/ NormalizeSheet
    \/ CheckProcessed
    \/ MergeSheet
    \/ Return
    \/ Export

Spec == Init /\ [][Next]_vars

TypeOK ==
    /\ pc \in {"start", "idle", "tide", "open_temp", "temp_loop", "merge_loop",
               "download", "done", "stopped"}
    /\ sheet_idx \in 0..(MaxSheets + 1)


(* ===================== properties of the program ======================= *)
Abs(x) == IF x < 0 THEN -x ELSE x
SeqToBag(s) == [x \in Range(s) |-> Cardinality({k \in DOMAIN s : s[k] = x})]
Last(s) == s[Len(s)]
Returned == pc \in {"download", "done"}
Finished == pc \in {"done", "stopped", "idle"}

\* the inputs, as the uploaded files give them
TideOk == tide_file.readable /\ {"Mare", "Data", "Hora"} \subseteq tide_file.cols
Parses(d, t) == d >= 0 /\ t >= 0 /\ t <= 86399
WantedEvents ==
    {k \in DOMAIN tide_file.rows :
        /\ tide_file.rows[k]["Mare"] = "Preia-Mar"
        /\ Parses(tide_file.rows[k]["Data"], tide_file.rows[k]["Hora"])}
SheetNamed(name) == CHOOSE sh \in Range(temp_file.sheets) : sh.name = name
Skipped(sh) == sh.rows = <<>> \/ "Date" \notin sh.cols \/ "time" \notin sh.cols
\* the distinct rows of a sheet without 'ficheiro.origem'
CleanRows(sh) == {Restrict(r, DOMAIN r \ {"ficheiro.origem"}) : r \in Range(sh.rows)}
\* the readings of a non-skipped sheet whose timestamp parses, with the timestamp
Readings(sh) ==
    {r @@ [Temp_DateTime |-> r["Date"] * 86400 + r["time"]] :
        r \in {c \in CleanRows(sh) : Parses(c["Date"], c["time"])}}
SensorCols(sh) == (sh.cols \ {"ficheiro.origem"}) \cup {"Temp_DateTime"}
SensorPart(m, sh) == Restrict(m, SensorCols(sh))
\* the event columns of a merged row under their names in the tide file
EventPart(m) == [c \in tide_file.cols |-> m[NewName(c)]]
Distance(m, r) == Abs(m["Mares_DateTime"] - r["Temp_DateTime"])

\* C1: every merged table has exactly one row per event row with
\* Mare = 'Preia-Mar' and a parsing Data+Hora timestamp, whatever the number
\* of sensor rows, and holds every such event row as often as the tide file.
C1_RowCount ==
    \A j \in DOMAIN merged_results :
        LET rows == merged_results[j].rows
        IN  /\ Len(rows) = Cardinality(WantedEvents)
            /\ SeqToBag([k \in DOMAIN rows |-> EventPart(rows[k])])
                 = SeqToBag(SelectIdx(tide_file.rows, WantedEvents, 1))

\* one of two event rows is filtered out and the sheet has two readings
C1_Witness ==
    /\ Len(tide_file.rows) = 2
    /\ \E j \in DOMAIN merged_results :
          /\ Len(merged_results[j].rows) = 1
          /\ Cardinality(Readings(SheetNamed(merged_results[j].name))) = 2

\* C2: the sensor fields of a merged row are those of a reading of the sheet
\* at the minimum absolute distance from the event; they are all null when
\* that minimum exceeds 1 hour or the sheet has no reading with a timestamp.
C2_Nearest ==
    \A j \in DOMAIN merged_results :
        LET sh == SheetNamed(merged_results[j].name)
            rows == merged_results[j].rows
        IN  \A k \in DOMAIN rows :
                LET near == {r \in Readings(sh) :
                                \A q \in Readings(sh) : Distance(rows[k], r) <= Distance(rows[k], q)}
                IN  IF near = {} \/ (\E r \in near : Distance(rows[k], r) > 3600)
                    THEN SensorPart(rows[k], sh) = [c \in SensorCols(sh) |-> NULL]
                    ELSE SensorPart(rows[k], sh) \in near

\* a merged row matched to the later of two readings, the nearer one
C2_Witness ==
    \E j \in DOMAIN merged_results :
        LET sh == SheetNamed(merged_results[j].name)
            rows == merged_results[j].rows
        IN  /\ Cardinality(Readings(sh)) = 2
            /\ \E k \in DOMAIN rows :
                  /\ rows[k]["Temp_DateTime"] > rows[k]["Mares_DateTime"]
                  /\ \E r \in Readings(sh) : r["Temp_DateTime"] < rows[k]["Mares_DateTime"]

\* C3: with a single reading in the sheet, at distance d before or after the
\* event, the reading is attached when d is 59:59 or exactly 1:00:00 and the
\* sensor fields are null when d is 1:00:01.
C3_Boundary ==
    \A j \in DOMAIN merged_results :
        LET sh == SheetNamed(merged_results[j].name)
            rows == merged_results[j].rows
        IN  Len(sh.rows) = 1 =>
              \A k \in DOMAIN rows : \A r \in Readings(sh) :
                  /\ Distance(rows[k], r) \in {3599, 3600} => SensorPart(rows[k], sh) = r
                  /\ Distance(rows[k], r) = 3601 =>
                        SensorPart(rows[k], sh) = [c \in SensorCols(sh) |-> NULL]

\* the only reading is exactly one hour after the event and is attached
C3_Witness ==
    \E j \in DOMAIN merged_results :
        LET sh == SheetNamed(merged_results[j].name)
            rows == merged_results[j].rows
        IN  /\ Len(sh.rows) = 1
            /\ \E k \in DOMAIN rows :
                  rows[k]["Temp_DateTime"] = rows[k]["Mares_DateTime"] + 3600


\* the run got as far as the sheet loop: both files uploaded, the tide file
\* prepared without error and the workbook opened
SheetLoopInputs ==
    /\ tide_file.present /\ temp_file.present
    /\ TideOk
    /\ temp_file.readable
AllSheetsRead == \A sh \in Range(temp_file.sheets) : sh.readable
\* the names of the sheets that are not skipped, in workbook order
SurvivingNames ==
    LET idx == {k \in DOMAIN temp_file.sheets : ~Skipped(temp_file.sheets[k])}
    IN  [k \in DOMAIN SelectIdx(temp_file.sheets, idx, 1) |->
            SelectIdx(temp_file.sheets, idx, 1)[k].name]
HasError == \E k \in DOMAIN log : log[k].kind = "error"

\* C4 as stated: neither a skip nor a failure in one sheet keeps another
\* sheet, non-empty and with 'Date' and 'time', from getting its merged
\* table in the result.
C4_Original ==
    (Finished /\ SheetLoopInputs) =>
        \A sh \in Range(temp_file.sheets) :
            (sh.readable /\ ~Skipped(sh)) => sh.name \in Range(Keys(merged_data))

\* C4 (amended): a skipped sheet never aborts the others: when every sheet
\* of the workbook is read without an exception, each sheet that is
\* non-empty and has 'Date' and 'time' gets its merged table in the result.
\* An exception raised for any sheet aborts the whole run with an error: no
\* sheet is merged and no result is returned.
C4_SkipIndependent ==
    (Finished /\ SheetLoopInputs) =>
        IF AllSheetsRead
        THEN \A sh \in Range(temp_file.sheets) :
                ~Skipped(sh) => sh.name \in Range(Keys(merged_data))
        ELSE /\ pc = "stopped"
             /\ Last(log) = Msg("error", "temperature", "", 0)
             /\ merged_results = <<>> /\ merged_data = <<>> /\ download = <<>>

\* a run that skipped one sheet and returned the merge of another one
C4_Witness ==
    /\ pc = "done"
    /\ \E k \in DOMAIN log : log[k].kind = "info" /\ log[k].text = "skip"
    /\ \E sh \in Range(temp_file.sheets) : Skipped(sh)
    /\ \E sh \in Range(temp_file.sheets) : sh.name \in Range(Keys(merged_data))

\* C5: when the tide file cannot be read or lacks 'Mare', 'Data' or 'Hora',
\* the run reports an error and stops before any sensor sheet is read or
\* merged; no mapping is returned and nothing is exported.
C5_TideFatal ==
    (tide_file.present /\ temp_file.present /\ ~TideOk) =>
        /\ pc \in {"start", "tide", "stopped"}
        /\ pc = "stopped" => Last(log) = Msg("error", "tide", "", 0)
        /\ sheet_idx = 0 /\ processed_temp_dfs = <<>>
        /\ merged_results = <<>> /\ merged_data = <<>> /\ download = <<>>

\* a tide file without its 'Hora' column has stopped the run
C5_Witness ==
    /\ tide_file.readable /\ "Hora" \notin tide_file.cols
    /\ temp_file.present /\ temp_file.readable /\ temp_file.sheets # <<>>
    /\ pc = "stopped"

\* C6: when every sheet is skipped (empty, or without 'Date' or 'time') the
\* run ends with the warning that no valid sheet was found, without any
\* error message, returns no mapping and never reaches the export; and a
\* mapping that is returned is never empty.
C6_NoData ==
    /\ (SheetLoopInputs /\ \A sh \in Range(temp_file.sheets) : sh.readable /\ Skipped(sh)) =>
          /\ pc \in {"start", "tide", "open_temp", "temp_loop", "stopped"}
          /\ pc = "stopped" => Last(log) = Msg("warning", "no valid sheets", "", 0)
          /\ ~HasError
          /\ merged_data = <<>> /\ download = <<>>
    /\ Returned => merged_data # <<>>

\* a workbook of two skipped sheets has ended the run
C6_Witness ==
    /\ SheetLoopInputs
    /\ Len(temp_file.sheets) = 2
    /\ \A sh \in Range(temp_file.sheets) : sh.readable /\ Skipped(sh)
    /\ pc = "stopped"

\* C7: on a run whose files are read without error and whose workbook has a
\* sheet that is not skipped, if no event row has Mare = 'Preia-Mar' the run
\* is never stopped, logs no error and no 'no data' warning, and the mapping
\* it returns has a key for every sheet that is not skipped, each with a
\* table of 0 rows.
C7_NoEvents ==
    ( /\ SheetLoopInputs /\ AllSheetsRead
      /\ \E sh \in Range(temp_file.sheets) : ~Skipped(sh)
      /\ \A k \in DOMAIN tide_file.rows : tide_file.rows[k]["Mare"] # "Preia-Mar" ) =>
        /\ pc \notin {"stopped", "idle"} /\ ~HasError
        /\ \A k \in DOMAIN log : log[k].kind # "warning" \/ log[k].text = "duplicates"
        /\ \A j \in DOMAIN merged_results : merged_results[j].rows = <<>>
        /\ Returned =>
              /\ Keys(merged_data) = SurvivingNames
              /\ \A j \in DOMAIN merged_data : merged_data[j].rows = <<>>

\* a tide file with only a 'Baixa-Mar' row, run to the end
C7_Witness ==
    /\ SheetLoopInputs
    /\ tide_file.rows # <<>>
    /\ \A k \in DOMAIN tide_file.rows : tide_file.rows[k]["Mare"] # "Preia-Mar"
    /\ pc = "done"
    /\ merged_data # <<>>

\* the warning about duplicates logged for a sheet, as a set of counts
DuplicatesReported(name) ==
    {log[k].n : k \in {q \in DOMAIN log : log[q].text = "duplicates" /\ log[q].sheet = name}}
WithoutTimestamp(r) == Restrict(r, DOMAIN r \ {"Temp_DateTime"})

\* C8: once a sheet is normalized, the rows kept are one copy of each
\* distinct row of the sheet without 'ficheiro.origem' (those whose timestamp
\* parses), and the number of duplicates reported is the number of rows of
\* the sheet minus the number of distinct rows (nothing is reported when
\* that is 0).
C8_Dedup ==
    \A j \in DOMAIN processed_temp_dfs :
        LET sh == SheetNamed(processed_temp_dfs[j].name)
            kept == processed_temp_dfs[j].rows
            removed == Len(sh.rows) - Cardinality(CleanRows(sh))
        IN  /\ Len(kept) = Cardinality(Readings(sh))
            /\ {WithoutTimestamp(kept[k]) : k \in DOMAIN kept}
                 = {c \in CleanRows(sh) : Parses(c["Date"], c["time"])}
            /\ DuplicatesReported(sh.name) = IF removed > 0 THEN {removed} ELSE {}

\* 5 rows, 2 of them identical once 'ficheiro.origem' is dropped: 1 duplicate
\* is reported and 4 rows are kept
C8_Witness ==
    \E j \in DOMAIN processed_temp_dfs :
        LET sh == SheetNamed(processed_temp_dfs[j].name)
        IN  /\ Len(sh.rows) = 5
            /\ Cardinality(Range(sh.rows)) = 5
            /\ DuplicatesReported(sh.name) = {1}
            /\ Len(processed_temp_dfs[j].rows) = 4

\* C9: the keys of the returned mapping are the names of the sheets that are
\* not skipped, in workbook order; the table of a key has one row per
\* prepared event, each tagged with the key and carrying either nulls or a
\* reading of the sheet of that name.
C9_Keys ==
    Returned =>
        /\ Keys(merged_data) = SurvivingNames
        /\ \A j \in DOMAIN merged_data :
              LET sh == SheetNamed(merged_data[j].name)
                  rows == merged_data[j].rows
              IN  /\ [k \in DOMAIN rows |-> Restrict(rows[k], DOMAIN df_mares[k])] = df_mares
                  /\ \A k \in DOMAIN rows :
                        /\ rows[k]["Source_Temp_Sheet"] = merged_data[j].name
                        /\ SensorPart(rows[k], sh)
                             \in Readings(sh) \cup {[c \in SensorCols(sh) |-> NULL]}

\* a skipped sheet followed by a merged one, with an event in the table
C9_Witness ==
    /\ Returned
    /\ Len(temp_file.sheets) = 2
    /\ Skipped(temp_file.sheets[1])
    /\ Keys(merged_data) = <<temp_file.sheets[2].name>>
    /\ merged_data[1].rows # <<>>

\* the two readings next to the event of merged row m in sheet sh, when the
\* event falls strictly between two readings
Before(m, sh) == {r \in Readings(sh) : r["Temp_DateTime"] < m["Mares_DateTime"]}
After(m, sh) == {r \in Readings(sh) : r["Temp_DateTime"] > m["Mares_DateTime"]}
Tie(m, sh) ==
    /\ \A r \in Readings(sh) : r["Temp_DateTime"] # m["Mares_DateTime"]
    /\ \E b \in Before(m, sh) : \E a \in After(m, sh) :
          /\ \A r \in Readings(sh) : Distance(m, b) <= Distance(m, r)
          /\ Distance(m, a) = Distance(m, b)
          /\ Distance(m, b) <= 3600

\* C10: when the nearest reading before an event and the nearest reading
\* after it are equally far from it (and within 1 hour), the merged row
\* carries the earlier one, in every run.
C10_TieEarlier ==
    \A j \in DOMAIN merged_results :
        LET sh == SheetNamed(merged_results[j].name)
            rows == merged_results[j].rows
        IN  \A k \in DOMAIN rows :
                Tie(rows[k], sh) =>
                    /\ SensorPart(rows[k], sh) \in Before(rows[k], sh)
                    /\ rows[k]["Temp_DateTime"] < rows[k]["Mares_DateTime"]

\* an event exactly one hour after one reading and one hour before another
C10_Witness ==
    \E j \in DOMAIN merged_results :
        LET sh == SheetNamed(merged_results[j].name)
            rows == merged_results[j].rows
        IN  \E k \in DOMAIN rows :
                /\ Tie(rows[k], sh)
                /\ rows[k]["Mares_DateTime"] - rows[k]["Temp_DateTime"] = 3600

=============================================================================
